---- MODULE Spec2Model ----
(***************************************************************************)
(* Template helpers of sentry.templatetags.sentry_helpers: small_count,    *)
(* duration, timesince, percent and get_project_dsn.                       *)
(*                                                                         *)
(* Every helper is a function of its arguments.  A state is one call: the  *)
(* helper's name, its arguments, and (once the call has run) its outcome.  *)
(* Numbers that Python computes in IEEE-754 double precision are modelled  *)
(* exactly, with integer arithmetic on the rounding error of each          *)
(* operation, so that the text the '%' formatting produces is the text the *)
(* interpreter produces.                                                   *)
(***************************************************************************)
EXTENDS Integers, Sequences, FiniteSets

VARIABLES fn, arg, result, context, pc

vars == <<fn, arg, result, context, pc>>

(***************************************************************************)
(* Outcomes.  A helper returns an integer, a string, a date or None, or    *)
(* raises an exception.                                                    *)
(***************************************************************************)
IntVal(i) == [tag |-> "int", n |-> i, s |-> ""]
StrVal(t) == [tag |-> "str", n |-> 0, s |-> t]
DateVal(d) == [tag |-> "date", n |-> d, s |-> ""]
Raised(e) == [tag |-> "raise", n |-> 0, s |-> e]
Pending == [tag |-> "pending", n |-> 0, s |-> ""]

(***************************************************************************)
(* str(n) and '%d' % n for an integer n.                                   *)
(***************************************************************************)
Digits == <<"0", "1", "2", "3", "4", "5", "6", "7", "8", "9">>

RECURSIVE NatToStr(_)
NatToStr(n) ==
    IF n < 10 THEN Digits[n + 1] ELSE NatToStr(n \div 10) \o Digits[(n % 10) + 1]

IntToStr(n) == IF n < 0 THEN "-" \o NatToStr(-n) ELSE NatToStr(n)

(***************************************************************************)
(* IEEE-754 double precision.  For positive integers a and b, a / float(b) *)
(* is the double nearest to the rational a/b:                              *)
(*     RN(a/b) = a/b + (RoundErr(a, b) / b) * 2^(Exp2(a, b) - 52)          *)
(* where 2^Exp2(a, b) <= a/b < 2^(Exp2(a, b) + 1).  RoundErr is found from *)
(* the remainder of a * 2^(52 - Exp2) modulo b, by repeated doubling, and  *)
(* ties go to the even significand.                                        *)
(***************************************************************************)
RECURSIVE Pow2(_)
Pow2(k) == IF k = 0 THEN 1 ELSE 2 * Pow2(k - 1)

RECURSIVE ExpUp(_, _, _)
ExpUp(a, b, e) == IF 2 * b * Pow2(e) <= a THEN ExpUp(a, b, e + 1) ELSE e

RECURSIVE ExpDown(_, _, _)
ExpDown(a, b, j) == IF a * Pow2(j) < b THEN ExpDown(a, b, j + 1) ELSE j

Exp2(a, b) == IF a >= b THEN ExpUp(a, b, 0) ELSE -ExpDown(a, b, 0)

RECURSIVE DoubleMod(_, _, _)
DoubleMod(r, k, m) == IF k = 0 THEN r ELSE DoubleMod((2 * r) % m, k - 1, m)

RoundErr(a, b) ==
    LET R == DoubleMod(a % (2 * b), 52 - Exp2(a, b), 2 * b)
        r == R % b
        odd == R \div b
    IN  IF 2 * r < b THEN -r
        ELSE IF 2 * r > b THEN b - r
        ELSE IF odd = 0 THEN -r ELSE b - r

RECURSIVE IsPow2(_)
IsPow2(n) == n = 1 \/ (n % 2 = 0 /\ IsPow2(n \div 2))

\* num * 2^j > den
ScaledGt(num, den, j) ==
    IF j >= 0 THEN num * Pow2(j) > den ELSE num > den * Pow2(-j)

(***************************************************************************)
(* int(x * f) and '%d' % (x * f), where x is the double K/f + (c/b) *      *)
(* 2^(e - 52) for an integer K >= 1: the product is rounded to the doubles *)
(* around K and then truncated, so it is K - 1 when the product falls      *)
(* below K by more than half the spacing of the doubles under K.           *)
(***************************************************************************)
TruncProd(K, c, b, f, e) ==
    LET k == Exp2(K, 1)
        under == IF IsPow2(K) THEN 1 ELSE 0
    IN  IF c < 0 /\ ScaledGt(f * (-c), b, e - k + 1 + under) THEN K - 1 ELSE K

(***************************************************************************)
(* small_count                                                             *)
(*                                                                         *)
(* The argument is v = hi * 10^9 + lo with 0 <= lo < 10^9 (Python integers *)
(* are unbounded; the two limbs keep every intermediate value in range).   *)
(***************************************************************************)
Billion == 1000000000
Million == 1000000
Thousand == 1000

\* the divisors tried smallest first
z_reversed == << [x |-> Thousand, y |-> "k"],
                 [x |-> Million, y |-> "m"],
                 [x |-> Billion, y |-> "b"] >>

z == << [x |-> Billion, y |-> "b"],
        [x |-> Million, y |-> "m"],
        [x |-> Thousand, y |-> "k"] >>

\* divmod(v, x), Python's floor division, for x a divisor of 10^9
divmod(v, x) ==
    [o |-> v.hi * (Billion \div x) + (v.lo \div x), p |-> v.lo % x]

\* '%.1f' % (v / float(x)) where divmod(v, x) = (o, p)
Fmt1f(o, p, x) ==
    LET neg == o < 0
        I == IF ~neg THEN o ELSE IF p = 0 THEN -o ELSE -o - 1
        q == IF ~neg \/ p = 0 THEN p ELSE x - p
        u == x \div 10
        t == q \div u
        r == q % u
        c == RoundErr(20 * I + 2 * t + 1, 20)
        up == \/ 2 * r > u
              \/ 2 * r = u /\ (c > 0 \/ (c = 0 /\ t % 2 = 1))
        T == 10 * I + t + (IF up THEN 1 ELSE 0)
    IN  (IF neg THEN "-" ELSE "") \o NatToStr(T \div 10) \o "." \o NatToStr(T % 10)

\* the digit test inverted: len(str(o)) <= 2 or not p
RECURSIVE small_count_loop_inverted(_, _)
small_count_loop_inverted(v, i) ==
    IF i > Len(z) THEN IntVal(v.lo)
    ELSE LET x == z[i].x
             y == z[i].y
             o == divmod(v, x).o
             p == divmod(v, x).p
         IN  IF o # 0
             THEN IF Len(IntToStr(o)) <= 2 \/ p = 0
                  THEN StrVal(IntToStr(o) \o y)
                  ELSE StrVal(Fmt1f(o, p, x) \o y)
             ELSE small_count_loop_inverted(v, i + 1)

RECURSIVE small_count_loop(_, _)
small_count_loop(v, i) ==
    IF i > Len(z) THEN IntVal(v.lo)
    ELSE LET x == z[i].x
             y == z[i].y
             o == divmod(v, x).o
             p == divmod(v, x).p
         IN  IF o # 0
             THEN IF Len(IntToStr(o)) > 2 \/ p = 0
                  THEN StrVal(IntToStr(o) \o y)
                  ELSE StrVal(Fmt1f(o, p, x) \o y)
             ELSE small_count_loop(v, i + 1)

small_count(v) ==
    IF v.hi = 0 /\ v.lo = 0 THEN IntVal(0) ELSE small_count_loop(v, 1)

(***************************************************************************)
(* duration                                                                *)
(*                                                                         *)
(* value / 1000.0 is the double value/1000 + (c/1000) * 2^(e - 52), with   *)
(* c = RoundErr(value, 1000) and e = Exp2(value, 1000).  The '%' of two    *)
(* doubles is exact, so every later "value" is a whole number of           *)
(* milliseconds plus that same error; the model carries the milliseconds   *)
(* and the error.  The error is below 2^-39 s for the durations modelled,  *)
(* so it decides a comparison or a rounding only on an exact boundary.     *)
(***************************************************************************)
MsPerSecond == 1000
SecondsPerHour == 3600
SecondsPerMinute == 60

Abs(n) == IF n < 0 THEN -n ELSE n

\* '%0.2f' % seconds, for seconds = ms/1000 + error of sign c, ms >= 0
Fmt2f(ms, c) ==
    LET h == ms \div 10
        u == ms % 10
        up == u > 5 \/ (u = 5 /\ (c > 0 \/ (c = 0 /\ h % 2 = 1)))
        H == h + (IF up THEN 1 ELSE 0)
    IN  NatToStr(H \div 100) \o "." \o NatToStr((H % 100) \div 10) \o NatToStr(H % 10)

\* '%d' % (seconds * 1000), for seconds = ms/1000 + (c/1000) * 2^(e - 52)
FmtMs(ms, c, e) ==
    LET mag == IF c = 0 THEN Abs(ms)
               ELSE TruncProd(Abs(ms), -Abs(c), MsPerSecond, MsPerSecond, e)
        toward == (ms > 0 /\ c < 0) \/ (ms < 0 /\ c > 0)
    IN  IF Abs(ms) = 0 THEN "0"
        ELSE IF toward THEN IntToStr((IF ms < 0 THEN -1 ELSE 1) * mag)
        ELSE IntToStr(ms)

duration(value) ==
    IF value = 0 THEN StrVal("0s")
    ELSE
    LET a == Abs(value)
        sign == IF value < 0 THEN -1 ELSE 1
        c == sign * RoundErr(a, MsPerSecond)
        e == Exp2(a, MsPerSecond)
        overHour == value > SecondsPerHour * MsPerSecond
        hours == IF overHour THEN value \div (SecondsPerHour * MsPerSecond) ELSE 0
        v1 == IF overHour THEN value % (SecondsPerHour * MsPerSecond) ELSE value
        overMinute == v1 > SecondsPerMinute * MsPerSecond
        minutes == IF overMinute THEN v1 \div (SecondsPerMinute * MsPerSecond) ELSE 0
        seconds == IF overMinute THEN v1 % (SecondsPerMinute * MsPerSecond) ELSE v1
        gtOne == seconds > MsPerSecond \/ (seconds = MsPerSecond /\ c > 0)
        nonZero == seconds # 0 \/ c # 0
    IN  StrVal(
            (IF hours # 0 THEN IntToStr(hours) \o "h" ELSE "")
         \o (IF minutes # 0 THEN IntToStr(minutes) \o "m" ELSE "")
         \o (IF gtOne THEN Fmt2f(seconds, c) \o "s"
             ELSE IF nonZero THEN FmtMs(seconds, c, e) \o "ms"
             ELSE ""))

(***************************************************************************)
(* percent                                                                 *)
(*                                                                         *)
(* int(int(value) / float(total) * 100): the quotient is rounded to a      *)
(* double, the product is rounded again, and int() truncates toward zero.  *)
(* When 100 * value / total is not a whole number it is at least 1/total   *)
(* away from one, far more than the rounding errors; when it is a whole    *)
(* number K the product may fall just under K.                             *)
(***************************************************************************)
Hundred == 100

percent(value, total) ==
    IF value = 0 \/ total = 0 THEN IntVal(0)
    ELSE
    LET a == Abs(value)
        b == Abs(total)
        sign == IF (value < 0) # (total < 0) THEN -1 ELSE 1
        K == (Hundred * a) \div b
        mag == IF (Hundred * a) % b # 0 THEN K
               ELSE TruncProd(K, RoundErr(a, b), b, Hundred, Exp2(a, b))
    IN  IntVal(sign * mag)

(***************************************************************************)
(* timesince                                                               *)
(*                                                                         *)
(* Timestamps are whole seconds since an epoch, in UTC.  Text that the     *)
(* code splits, joins and strips is a sequence of characters.              *)
(***************************************************************************)
SecondsPerDay == 86400
FiveDays == 5

RECURSIVE NatToChars(_)
NatToChars(n) ==
    IF n < 10 THEN <<Digits[n + 1]>>
    ELSE NatToChars(n \div 10) \o <<Digits[(n % 10) + 1]>>

RECURSIVE ToStr(_)
ToStr(cs) == IF cs = <<>> THEN "" ELSE Head(cs) \o ToStr(Tail(cs))

\* django.utils.timesince: the chunks and their singular names (the plural
\* adds an "s")
chunks == << [seconds |-> 60 * 60 * 24 * 365, name |-> <<"y", "e", "a", "r">>],
             [seconds |-> 60 * 60 * 24 * 30, name |-> <<"m", "o", "n", "t", "h">>],
             [seconds |-> 60 * 60 * 24 * 7, name |-> <<"w", "e", "e", "k">>],
             [seconds |-> 60 * 60 * 24, name |-> <<"d", "a", "y">>],
             [seconds |-> 60 * 60, name |-> <<"h", "o", "u", "r">>],
             [seconds |-> 60, name |-> <<"m", "i", "n", "u", "t", "e">>] >>

ChunkText(count, i) ==
    NatToChars(count) \o <<" ">> \o chunks[i].name
        \o (IF count = 1 THEN <<>> ELSE <<"s">>)

RECURSIVE FirstChunk(_, _)
FirstChunk(since, i) ==
    IF i = Len(chunks) \/ since \div chunks[i].seconds # 0 THEN i
    ELSE FirstChunk(since, i + 1)

\* django.template.defaultfilters.timesince(value, now), as called by the
\* helper: the one or two most significant units of now - value
django_timesince(d, now) ==
    LET since == now - d
        i == FirstChunk(since, 1)
        count == since \div chunks[i].seconds
        count2 == IF i + 1 <= Len(chunks)
                  THEN (since - chunks[i].seconds * count) \div chunks[i + 1].seconds
                  ELSE 0
    IN  IF since <= 0 THEN ChunkText(0, Len(chunks))
        ELSE ChunkText(count, i)
                \o (IF count2 # 0 THEN <<",", " ">> \o ChunkText(count2, i + 1)
                    ELSE <<>>)

\* s.split(sep)
RECURSIVE SplitAcc(_, _, _)
SplitAcc(cs, sep, word) ==
    IF cs = <<>> THEN <<word>>
    ELSE IF Head(cs) = sep THEN <<word>> \o SplitAcc(Tail(cs), sep, <<>>)
    ELSE SplitAcc(Tail(cs), sep, Append(word, Head(cs)))

Split(cs, sep) == SplitAcc(cs, sep, <<>>)

\* sep.join(words)
RECURSIVE Join(_, _)
Join(words, sep) ==
    IF words = <<>> THEN <<>>
    ELSE IF Len(words) = 1 THEN words[1]
    ELSE words[1] \o <<sep>> \o Join(Tail(words), sep)

\* s.strip(ch)
RECURSIVE LStrip(_, _)
LStrip(cs, ch) ==
    IF cs # <<>> /\ Head(cs) = ch THEN LStrip(Tail(cs), ch) ELSE cs

RECURSIVE RStrip(_, _)
RStrip(cs, ch) ==
    IF cs # <<>> /\ cs[Len(cs)] = ch THEN RStrip(SubSeq(cs, 1, Len(cs) - 1), ch)
    ELSE cs

Strip(cs, ch) == RStrip(LStrip(cs, ch), ch)

\* words[0:2]
FirstTwo(words) == SubSeq(words, 1, IF Len(words) < 2 THEN Len(words) ELSE 2)

\* the slice taken as [0:4], two units instead of one
ShortenTwoUnits(cs) ==
    Strip(Join(SubSeq(Split(cs, " "), 1,
                      IF Len(Split(cs, " ")) < 4 THEN Len(Split(cs, " ")) ELSE 4), " "), ",")

\* (' '.join(timesince(value, now).split(' ')[0:2])).strip(',')
Shorten(cs) == Strip(Join(FirstTwo(Split(cs, " ")), " "), ",")

\* the five-day test taken as <= instead of <
timesince_le(t, now) ==
    IF t.none THEN StrVal("never")
    ELSE IF t.at <= now - FiveDays * SecondsPerDay THEN DateVal(t.at \div SecondsPerDay)
    ELSE LET value == ToStr(Shorten(django_timesince(t.at, now)))
         IN  IF value = "0 minutes" THEN StrVal("just now")
             ELSE IF value = "1 day" THEN StrVal("yesterday")
             ELSE StrVal(value \o " ago")

\* t is [none |-> TRUE] for None, else [none |-> FALSE, at |-> seconds]
timesince(t, now) ==
    IF t.none THEN StrVal("never")
    ELSE IF t.at < now - FiveDays * SecondsPerDay THEN DateVal(t.at \div SecondsPerDay)
    ELSE LET value == ToStr(Shorten(django_timesince(t.at, now)))
         IN  IF value = "0 minutes" THEN StrVal("just now")
             ELSE IF value = "1 day" THEN StrVal("yesterday")
             ELSE StrVal(value \o " ago")

(***************************************************************************)
(* get_project_dsn                                                         *)
(*                                                                         *)
(* The ProjectKey table is a set of rows [id, user, project]; a key's DSN  *)
(* is named by its id.  A queryset without order_by has no defined order,  *)
(* so [0] may be any row that matches.                                     *)
(***************************************************************************)
NoUser == "None"

Filter(keys, user, project) ==
    {k \in keys : k.user = user /\ k.project = project}

\* ProjectKey.objects.filter(user=None, project=project)[0]
FilterFirst(keys, project, pick) ==
    IF Filter(keys, NoUser, project) = {} THEN [exc |-> "IndexError", key |-> 0]
    ELSE [exc |-> "", key |-> pick]

\* ProjectKey.objects.get(user=user, project=project)
Get(keys, user, project) ==
    LET rows == Filter(keys, user, project)
    IN  IF rows = {} THEN [exc |-> "DoesNotExist", key |-> 0]
        ELSE IF Cardinality(rows) > 1
             THEN [exc |-> "MultipleObjectsReturned", key |-> 0]
        ELSE [exc |-> "", key |-> (CHOOSE k \in rows : TRUE).id]

Dsn(id) == [tag |-> "dsn", n |-> id, s |-> ""]
NoneVal == [tag |-> "none", n |-> 0, s |-> ""]

\* the outcome [ret, ctx] of the call; ctx = "unset" leaves context[asvar] alone
get_project_dsn(a, pick) ==
    IF ~a.auth THEN [ret |-> StrVal(""), ctx |-> NoneVal]
    ELSE
    LET first == FilterFirst(a.keys, a.project, pick)
        own == Get(a.keys, a.user, a.project)
    IN  IF first.exc = "DoesNotExist"
        THEN IF own.exc = "IndexError" THEN [ret |-> StrVal(""), ctx |-> NoneVal]
             ELSE IF own.exc # "" THEN [ret |-> Raised(own.exc), ctx |-> "unset"]
             ELSE [ret |-> StrVal(""), ctx |-> Dsn(own.key)]
        ELSE IF first.exc # "" THEN [ret |-> Raised(first.exc), ctx |-> "unset"]
        ELSE [ret |-> StrVal(""), ctx |-> Dsn(first.key)]

(***************************************************************************)
(* Calls: a state is one call of one helper.  Init draws the helper and    *)
(* its arguments; the helper's action runs it.                             *)
(***************************************************************************)
MaxBillions == 3
MaxHours == 2
MaxMillis == 1200
MaxNegMillis == 20
MaxDays == 7
MaxPercentArg == 30
MaxKeys == 2

Groups == {0, 1, 5, 49, 50, 51, 99, 100, 150, 250, 500, 949, 950, 999}

SmallCountInputs ==
    { [hi |-> h, lo |-> a * Million + b * Thousand + c] :
        h \in (-MaxBillions .. MaxBillions) \cup {-100, -10, -9, 99, 100},
        a \in Groups, b \in Groups, c \in Groups }

DurationInputs ==
    { h * SecondsPerHour * MsPerSecond + m * SecondsPerMinute * MsPerSecond + ms :
        h \in 0 .. MaxHours,
        m \in {0, 1, 2, 59},
        ms \in (0 .. MaxMillis) \cup {1500, 2005, 2015, 2125, 59990, 59994, 59995, 59999} }
    \cup { -ms : ms \in (1 .. MaxNegMillis) \cup {500, 1500, 60001, 3600001} }

Now == 30 * SecondsPerDay + 45296

TimesinceInputs ==
    { [t |-> [none |-> FALSE, at |-> Now - (d * SecondsPerDay + h * 3600 + m * 60 + sec)],
       now |-> Now] :
        d \in 0 .. MaxDays, h \in {0, 1, 2, 23}, m \in {0, 1, 2, 59},
        sec \in {0, 1, 30, 59} }
    \cup { [t |-> [none |-> FALSE, at |-> Now + sec], now |-> Now] : sec \in {1, 60, 86400} }
    \cup { [t |-> [none |-> TRUE, at |-> 0], now |-> Now] }

PercentInputs ==
    { [value |-> v, total |-> t] :
        v \in -MaxPercentArg .. MaxPercentArg,
        t \in (-MaxPercentArg .. MaxPercentArg) \cup {50, 100, 200} }
    \cup { [value |-> 50, total |-> 200], [value |-> 0, total |-> 100] }

Users == {"u1", "u2"}
Projects == {"p1", "p2"}

KeyTables ==
    UNION { { { [id |-> i, user |-> f[i].user, project |-> f[i].project] : i \in 1 .. n } :
                f \in [1 .. n -> [user : Users \cup {NoUser}, project : Projects]] } :
            n \in 0 .. MaxKeys }

DsnInputs ==
    { [auth |-> au, user |-> u, project |-> "p1", keys |-> ks] :
        au \in BOOLEAN, u \in Users, ks \in KeyTables }

Init ==
    /\ pc = "ready"
    /\ result = Pending
    /\ context = "unset"
    /\ \/ fn = "small_count" /\ arg \in SmallCountInputs
       \/ fn = "duration" /\ arg \in DurationInputs
       \/ fn = "timesince" /\ arg \in TimesinceInputs
       \/ fn = "percent" /\ arg \in PercentInputs
       \/ fn = "get_project_dsn" /\ arg \in DsnInputs

CallSmallCount ==
    /\ pc = "ready" /\ fn = "small_count"
    /\ result' = small_count(arg)
    /\ pc' = "done"
    /\ UNCHANGED <<fn, arg, context>>

CallDuration ==
    /\ pc = "ready" /\ fn = "duration"
    /\ result' = duration(arg)
    /\ pc' = "done"
    /\ UNCHANGED <<fn, arg, context>>

CallTimesince ==
    /\ pc = "ready" /\ fn = "timesince"
    /\ result' = timesince(arg.t, arg.now)
    /\ pc' = "done"
    /\ UNCHANGED <<fn, arg, context>>

CallPercent ==
    /\ pc = "ready" /\ fn = "percent"
    /\ result' = percent(arg.value, arg.total)
    /\ pc' = "done"
    /\ UNCHANGED <<fn, arg, context>>

CallGetProjectDsn ==
    /\ pc = "ready" /\ fn = "get_project_dsn"
    /\ \E pick \in {k.id : k \in Filter(arg.keys, NoUser, arg.project)} \cup {0} :
          /\ (pick = 0) = (Filter(arg.keys, NoUser, arg.project) = {})
          /\ result' = get_project_dsn(arg, pick).ret
          /\ context' = get_project_dsn(arg, pick).ctx
    /\ pc' = "done"
    /\ UNCHANGED <<fn, arg>>

Next ==
    \/ CallSmallCount
    \/ CallDuration
    \/ CallTimesince
    \/ CallPercent
    \/ CallGetProjectDsn

Spec == Init /\ [][Next]_vars

Done(f) == pc = "done" /\ fn = f

(***************************************************************************)
(* Properties                                                              *)
(***************************************************************************)
Elapsed == arg.now - arg.t.at

\* the first divisor of z whose quotient is non-zero, for v >= 0 (0: none)
UnitOf(v) ==
    IF v.hi > 0 THEN 1 ELSE IF v.lo >= Million THEN 2 ELSE IF v.lo >= Thousand THEN 3 ELSE 0

QuotientOf(v) ==
    IF UnitOf(v) = 1 THEN v.hi
    ELSE IF UnitOf(v) = 2 THEN v.lo \div Million ELSE v.lo \div Thousand

RemainderOf(v) ==
    IF UnitOf(v) = 1 THEN v.lo
    ELSE IF UnitOf(v) = 2 THEN v.lo % Million ELSE v.lo % Thousand

OneDecimal(T) == NatToStr(T \div 10) \o "." \o NatToStr(T % 10)

TwoDecimals(H) ==
    NatToStr(H \div 100) \o "." \o NatToStr((H % 100) \div 10) \o NatToStr(H % 10)

\* C1: for v >= 0 small_count returns 0 for zero, v itself below 1000, and
\* otherwise, at the first divisor x with a non-zero quotient o, the text
\* "<o><unit>" when o has more than two digits or the remainder is zero, and
\* else v/x to one decimal (within half a tenth of v/x) followed by the unit.
C1_SmallCountFormat ==
    (Done("small_count") /\ arg.hi >= 0) =>
        LET i == UnitOf(arg)
            o == QuotientOf(arg)
            p == RemainderOf(arg)
            u == z[i].x \div 10
        IN  IF i = 0 THEN result = IntVal(arg.lo)
            ELSE IF o >= 100 \/ p = 0 THEN result = StrVal(IntToStr(o) \o z[i].y)
            ELSE \E t \in 0 .. 10 :
                    /\ result = StrVal(OneDecimal(10 * o + t) \o z[i].y)
                    /\ Abs(p - t * u) <= u \div 2

C1_Witness ==
    /\ Done("small_count")
    /\ arg = [hi |-> 0, lo |-> 1500]
    /\ result = StrVal("1.5k")

\* C6 as stated: small_count(2500000000) returns "2b".
C6_Original ==
    (Done("small_count") /\ arg = [hi |-> 2, lo |-> 500000000]) =>
        result = StrVal("2b")

\* C6 as amended: small_count(2500000000) returns "2.5b"; a value in the
\* billions whose quotient has at most two digits and whose remainder is
\* non-zero is never rendered as the bare integer quotient followed by "b".
C6_TwoAndAHalfBillion ==
    /\ (Done("small_count") /\ arg = [hi |-> 2, lo |-> 500000000]) =>
            result = StrVal("2.5b")
    /\ (Done("small_count") /\ arg.hi \in 1 .. 99 /\ arg.lo # 0) =>
            result # StrVal(IntToStr(arg.hi) \o "b")

C6_Witness ==
    /\ Done("small_count")
    /\ arg = [hi |-> 2, lo |-> 500000000]
    /\ result.tag = "str"

\* the components the duration's text is claimed to have
ClaimedHours(ms) ==
    IF ms > SecondsPerHour * MsPerSecond THEN ms \div (SecondsPerHour * MsPerSecond) ELSE 0

AfterHours(ms) ==
    IF ms > SecondsPerHour * MsPerSecond THEN ms % (SecondsPerHour * MsPerSecond) ELSE ms

ClaimedMinutes(ms) ==
    IF AfterHours(ms) > SecondsPerMinute * MsPerSecond
    THEN AfterHours(ms) \div (SecondsPerMinute * MsPerSecond) ELSE 0

Leftover(ms) ==
    IF AfterHours(ms) > SecondsPerMinute * MsPerSecond
    THEN AfterHours(ms) % (SecondsPerMinute * MsPerSecond) ELSE AfterHours(ms)

HoursText(h) == IF h = 0 THEN "" ELSE IntToStr(h) \o "h"
MinutesText(m) == IF m = 0 THEN "" ELSE IntToStr(m) \o "m"

\* C2: for ms >= 0 duration returns "0s" for zero and otherwise the hours
\* (only above 3600 s), the minutes (only above 60 s of the rest) and the
\* leftover, as "<s to two decimals>s" above one second and as
\* "<whole milliseconds>ms" from above zero to one second, zero components
\* left out.
C2_DurationFormat ==
    (Done("duration") /\ arg >= 0) =>
        LET prefix == HoursText(ClaimedHours(arg)) \o MinutesText(ClaimedMinutes(arg))
            left == Leftover(arg)
        IN  IF arg = 0 THEN result = StrVal("0s")
            ELSE IF left = 0 THEN result = StrVal(prefix)
            ELSE IF left <= MsPerSecond
                 THEN result = StrVal(prefix \o IntToStr(left) \o "ms")
            ELSE \E H \in {left \div 10, left \div 10 + 1} :
                    result = StrVal(prefix \o TwoDecimals(H) \o "s")

\* C5: duration(61000) returns "1m1.00s" and duration(3661000) returns
\* "1h1m1.00s".
C5_ExactlyOneSecond ==
    /\ (Done("duration") /\ arg = 61000) => result = StrVal("1m1.00s")
    /\ (Done("duration") /\ arg = 3661000) => result = StrVal("1h1m1.00s")

\* C10: for ms > 0 the text of duration is normalised: whole hours are in
\* the "h" part, the minutes part is 1..59 and the seconds part is below 60
\* seconds (whatever way the leftover is rounded or truncated).
C10_Normalised ==
    (Done("duration") /\ arg > 0) =>
        LET h == arg \div (SecondsPerHour * MsPerSecond)
            m == (arg % (SecondsPerHour * MsPerSecond)) \div (SecondsPerMinute * MsPerSecond)
            left == arg % (SecondsPerMinute * MsPerSecond)
            texts == IF left = 0 THEN {""}
                     ELSE { IntToStr(k) \o "ms" :
                              k \in {j \in {left - 1, left} : left <= MsPerSecond} }
                          \cup { TwoDecimals(H) \o "s" :
                                   H \in {j \in {left \div 10, left \div 10 + 1} :
                                            j < SecondsPerMinute * 100} }
        IN  \E t \in texts : result = StrVal(HoursText(h) \o MinutesText(m) \o t)

\* C8: for a negative argument small_count and duration raise an error and
\* return nothing.
C8_NegativeRaises ==
    /\ (Done("small_count") /\ arg.hi < 0) => result.tag = "raise"
    /\ (Done("duration") /\ arg < 0) => result.tag = "raise"

\* the text of the most significant unit of an elapsed time of at most 5 days
FirstUnitText(since) ==
    LET unit(n, name) == IntToStr(n) \o " " \o name \o (IF n = 1 THEN "" ELSE "s")
    IN  IF since >= SecondsPerDay THEN unit(since \div SecondsPerDay, "day")
        ELSE IF since >= 3600 THEN unit(since \div 3600, "hour")
        ELSE IF since >= 60 THEN unit(since \div 60, "minute")
        ELSE "0 minutes"

\* C3: timesince gives "never" for a falsy value, the date of a value
\* strictly earlier than now - 5 days (not of one exactly 5 days old), and
\* otherwise "just now" when the shortened delta is "0 minutes", "yesterday"
\* when it is "1 day", and the delta followed by " ago" in every other case.
C3_TimesinceCases ==
    Done("timesince") =>
        IF arg.t.none THEN result = StrVal("never")
        ELSE IF Elapsed > FiveDays * SecondsPerDay
             THEN result = DateVal(arg.t.at \div SecondsPerDay)
        ELSE IF FirstUnitText(Elapsed) = "0 minutes" THEN result = StrVal("just now")
        ELSE IF FirstUnitText(Elapsed) = "1 day" THEN result = StrVal("yesterday")
        ELSE result = StrVal(FirstUnitText(Elapsed) \o " ago")

\* C3, cases the claim names: 30 seconds back is "just now", one day back
\* is "yesterday", six days back is a date
C3_TimesinceExamples ==
    (Done("timesince") /\ ~arg.t.none) =>
        /\ Elapsed = 30 => result = StrVal("just now")
        /\ Elapsed = SecondsPerDay => result = StrVal("yesterday")
        /\ Elapsed = 6 * SecondsPerDay => result.tag = "date"

\* C3: the case split of timesince, every case and the cases it names
C3_Timesince == C3_TimesinceCases /\ C3_TimesinceExamples

C3_Witness ==
    /\ Done("timesince")
    /\ ~arg.t.none
    /\ Elapsed = FiveDays * SecondsPerDay
    /\ result = StrVal("5 days ago")

\* C4 as stated: at most 5 days back, the delta keeps the second unit when
\* it is non-zero: 3 days and 2 hours back gives "3 days 2 hours ago".
C4_Original ==
    (Done("timesince") /\ ~arg.t.none
        /\ Elapsed >= 2 * SecondsPerDay /\ Elapsed <= FiveDays * SecondsPerDay
        /\ (Elapsed % SecondsPerDay) \div 3600 # 0) =>
        LET hours == (Elapsed % SecondsPerDay) \div 3600
        IN  result = StrVal(IntToStr(Elapsed \div SecondsPerDay) \o " days "
                            \o IntToStr(hours) \o " hour"
                            \o (IF hours = 1 THEN "" ELSE "s") \o " ago")

\* C4 as amended: at most 5 days back, the delta is the most significant
\* unit alone, also when the second unit is non-zero: 3 days and 2 hours
\* back gives the delta "3 days" and the result "3 days ago".
C4_FirstUnitOnly ==
    /\ (Done("timesince") /\ ~arg.t.none /\ Elapsed = 3 * SecondsPerDay + 2 * 3600) =>
            result = StrVal("3 days ago")
    /\ (Done("timesince") /\ ~arg.t.none
            /\ Elapsed >= 2 * SecondsPerDay /\ Elapsed <= FiveDays * SecondsPerDay) =>
            result = StrVal(IntToStr(Elapsed \div SecondsPerDay) \o " days ago")
    /\ (Done("timesince") /\ ~arg.t.none
            /\ Elapsed >= 2 * 3600 /\ Elapsed < SecondsPerDay) =>
            result = StrVal(IntToStr(Elapsed \div 3600) \o " hours ago")

C4_Witness ==
    /\ Done("timesince")
    /\ ~arg.t.none
    /\ Elapsed = 3 * SecondsPerDay + 2 * 3600
    /\ result = StrVal("3 days ago")

FloorDiv(n, d) == IF d < 0 THEN (-n) \div (-d) ELSE n \div d

\* C7: percent returns 0 when value or total is zero and otherwise
\* floor(value / total * 100), also for negative arguments.
C7_PercentFloor ==
    Done("percent") =>
        result = IntVal(IF arg.value = 0 \/ arg.total = 0 THEN 0
                        ELSE FloorDiv(Hundred * arg.value, arg.total))

\* C9: get_project_dsn always returns '' and sets context[asvar]: None for
\* an unauthenticated user, else the DSN of a project-wide key when there is
\* one, else the DSN of the user's own key, else None; no lookup exception
\* reaches the caller.
C9_DsnTotal ==
    Done("get_project_dsn") =>
        LET wide == Filter(arg.keys, NoUser, arg.project)
            own == Filter(arg.keys, arg.user, arg.project)
        IN  /\ result = StrVal("")
            /\ IF ~arg.auth THEN context = NoneVal
               ELSE IF wide # {} THEN \E k \in wide : context = Dsn(k.id)
               ELSE IF own # {} THEN \E k \in own : context = Dsn(k.id)
               ELSE context = NoneVal
====
